---- MODULE Spec2Model ----
(***************************************************************************)
(* A model of trieregex.TrieRegEx (src/trieregex/trieregex.py).            *)
(*                                                                         *)
(* A character is a one-character string, a word and a regex fragment are  *)
(* sequences of characters (so that len() is Len and string comparison is  *)
(* lexicographic on code points).  A trie node, a Python dict, is the      *)
(* sequence of its items in insertion order, each item a record            *)
(* [k |-> key, v |-> child node].                                          *)
(*                                                                         *)
(* Spec is one instance with its calls as single steps; SpecBuilt is the   *)
(* constructor on longer words, with the queries only; SpecSteps follows   *)
(* one call statement by statement; SpecTwo has two instances.             *)
(***************************************************************************)
EXTENDS Integers, Sequences, FiniteSets, TLC

VARIABLES
    trie,        \* self._trie
    initials,    \* self._initials
    finals,      \* self._finals
    addCache,    \* the cache of the memoized add: items [key, val]
    regexCache,  \* the cache of the memoized regex: items [key, val]
    last,        \* the last call that could change the instance:
                 \* [op, changed (it changed the trie), err (it raised)],
                 \* in SpecTwo also inst (the instance called) and n (the
                 \* number of calls made)
    call,        \* the add or remove call in progress, where a specification
                 \* follows a call statement by statement (SpecSteps)
    other        \* the slots of a second instance, where a specification
                 \* has one (SpecTwo)

vars == <<trie, initials, finals, addCache, regexCache, last, call, other>>

-----------------------------------------------------------------------------
(* Bounds of the model *)

MaxLen == 2       \* longest word passed to an operation
MaxArgs == 2      \* most words passed in one call
MaxChars == 3     \* most characters passed in one call, over all its words
MaxWords == 2     \* add is called while at most this many words are present
MaxAddCalls == 1  \* add calls recorded in the add cache between two removes
MaxLenBuilt == 3  \* longest word passed to the constructor (SpecBuilt)
MaxArgsBuilt == 3 \* most words passed to the constructor (SpecBuilt)
MaxCharsBuilt == 7 \* most characters passed to the constructor (SpecBuilt)
MaxSteppedCalls == 1 \* calls followed statement by statement (SpecSteps)
MaxArgsTwo == 1   \* most words passed in one call (SpecTwo)
MaxCallsTwo == 3  \* calls made on the two instances together (SpecTwo)

Alphabet == {"a", "b", "."}

Marker == "**"

RECURSIVE WordsOfLen(_)
WordsOfLen(n) ==
    IF n = 0 THEN {<<>>}
    ELSE {Append(w, c) : w \in WordsOfLen(n - 1), c \in Alphabet}

Words == UNION {WordsOfLen(n) : n \in 0..MaxLen}

RECURSIVE TuplesOfLen(_)
TuplesOfLen(n) ==
    IF n = 0 THEN {<<>>}
    ELSE {Append(t, w) : t \in TuplesOfLen(n - 1), w \in Words}

RECURSIVE TotalLen(_)
TotalLen(t) == IF t = <<>> THEN 0 ELSE Len(Head(t)) + TotalLen(Tail(t))

ArgTuples ==
    {t \in UNION {TuplesOfLen(n) : n \in 0..MaxArgs} : TotalLen(t) <= MaxChars}

\* the words and the argument tuples of the constructor in SpecBuilt
BuiltWords == UNION {WordsOfLen(n) : n \in 0..MaxLenBuilt}

BuiltTuples ==
    {t \in UNION {[1..n -> BuiltWords] : n \in 0..MaxArgsBuilt} :
        TotalLen(t) <= MaxCharsBuilt}

-----------------------------------------------------------------------------
(* Python dict as the sequence of its items *)

Keys(node) == {node[i].k : i \in DOMAIN node}

In(key, node) == key \in Keys(node)

Idx(node, key) == CHOOSE i \in DOMAIN node : node[i].k = key

\* node[key], for a key that is in node
Child(node, key) == node[Idx(node, key)].v

\* node[key] = val: in place for a key the dict holds, appended otherwise
SetItem(node, key, val) ==
    IF In(key, node)
    THEN [node EXCEPT ![Idx(node, key)] = [k |-> key, v |-> val]]
    ELSE Append(node, [k |-> key, v |-> val])

\* del node[key], for a key that is in node
DelItem(node, key) ==
    LET i == Idx(node, key)
    IN SubSeq(node, 1, i - 1) \o SubSeq(node, i + 1, Len(node))

\* defaultdict(int): every key reads as 0 until it is counted, so a table is
\* the function from each character to its count
NoCounts == [c \in Alphabet |-> 0]

\* table[c] += d
Bump(table, c, d) == [table EXCEPT ![c] = @ + d]

-----------------------------------------------------------------------------
(* The memoizer (trieregex/memoizer.py), by its contract: a cache of the     *)
(* results of one method, keyed by the call's arguments; a call whose        *)
(* arguments are in the cache returns the cached result and does not run     *)
(* the body; clear_cache() empties the cache.  A cache is the set of its     *)
(* items [key |-> args, val |-> result].                                     *)

Cached(cache, args) == \E e \in cache : e.key = args

CachedVal(cache, args) == (CHOOSE e \in cache : e.key = args).val

Stored(cache, args, val) == cache \cup {[key |-> args, val |-> val]}

\* clear_cache()
Cleared == {}

\* what a method without a return statement returns
None == <<>>

-----------------------------------------------------------------------------
(* has *)

\* has with "return True" for every path the trie holds
RECURSIVE HasPath(_, _)
HasPath(node, word) ==
    IF word = <<>> THEN TRUE
    ELSE IF In(Head(word), node) THEN HasPath(Child(node, Head(word)), Tail(word))
    ELSE FALSE

RECURSIVE Has(_, _)
Has(node, word) ==
    IF word = <<>> THEN In(Marker, node)
    ELSE IF In(Head(word), node) THEN Has(Child(node, Head(word)), Tail(word))
    ELSE FALSE

-----------------------------------------------------------------------------
(* add *)

\* lines 34-39: the walk that creates the missing nodes and sets the marker
RECURSIVE InsertPath(_, _)
InsertPath(node, path) ==
    IF path = <<>> THEN SetItem(node, Marker, <<>>)
    ELSE LET c == Head(path)
             child == IF In(c, node) THEN Child(node, c) ELSE <<>>
         IN SetItem(node, c, InsertPath(child, Tail(path)))

\* the loop body with word[0] for word[-1] in the count of last characters
AddWordFinalFirst(st, word) ==
    IF word # <<>> /\ ~Has(st.trie, word)
    THEN [st EXCEPT !.initials = Bump(@, word[1], 1),
                    !.finals = Bump(@, word[1], 1),
                    !.trie = InsertPath(@, word)]
    ELSE st

\* the loop body without "and not self.has(word)"
AddWordNoHas(st, word) ==
    IF word # <<>>
    THEN [st EXCEPT !.initials = Bump(@, word[1], 1),
                    !.finals = Bump(@, word[Len(word)], 1),
                    !.trie = InsertPath(@, word)]
    ELSE st

\* lines 31-39: one iteration of the loop over words; st is the instance
AddWord(st, word) ==
    IF word # <<>> /\ ~Has(st.trie, word)
    THEN [st EXCEPT !.initials = Bump(@, word[1], 1),
                    !.finals = Bump(@, word[Len(word)], 1),
                    !.trie = InsertPath(@, word)]
    ELSE st

RECURSIVE AddWords(_, _)
AddWords(st, words) ==
    IF words = <<>> THEN st
    ELSE AddWords(AddWord(st, Head(words)), Tail(words))

-----------------------------------------------------------------------------
(* remove *)

\* lines 55-57: node = self._trie; for j in range(i-1): node = node[word[j]].
\* A lookup of a missing key raises KeyError: ok is FALSE.
RECURSIVE Walk(_, _)
Walk(node, path) ==
    IF path = <<>> THEN [ok |-> TRUE, node |-> node]
    ELSE IF In(Head(path), node) THEN Walk(Child(node, Head(path)), Tail(path))
    ELSE [ok |-> FALSE, node |-> <<>>]

\* The dict reached by path is mutated in place: the trie with that dict
\* replaced by new (path leads to a dict of the trie).
RECURSIVE ReplaceAt(_, _, _)
ReplaceAt(node, path, new) ==
    IF path = <<>> THEN new
    ELSE SetItem(node, Head(path),
                 ReplaceAt(Child(node, Head(path)), Tail(path), new))

\* the step with "del penult_node['**']" for every marked node: the node of
\* the last character is never deleted
PruneMarkerOnly(node, c, penult_node, is_end) ==
    IF is_end
    THEN IF In(Marker, penult_node)
         THEN SetItem(node, c, DelItem(penult_node, Marker))
         ELSE node
    ELSE IF Len(penult_node) = 0 THEN DelItem(node, c) ELSE node

\* the step without the else branch of "if is_end": an emptied node above the
\* last character is never deleted
PruneKeepEmpty(node, c, penult_node, is_end) ==
    IF is_end
    THEN IF In(Marker, penult_node)
         THEN IF Len(penult_node) = 1
              THEN DelItem(node, c)
              ELSE SetItem(node, c, DelItem(penult_node, Marker))
         ELSE node
    ELSE node

\* the step without "del penult_node['**']": a marked node with children is kept
PruneKeepMarker(node, c, penult_node, is_end) ==
    IF is_end
    THEN IF In(Marker, penult_node) /\ Len(penult_node) = 1
         THEN DelItem(node, c)
         ELSE node
    ELSE IF Len(penult_node) = 0 THEN DelItem(node, c) ELSE node

\* the step without "if len(penult_node) == 1": a marked node is always deleted
PruneAlways(node, c, penult_node, is_end) ==
    IF is_end
    THEN IF In(Marker, penult_node) THEN DelItem(node, c) ELSE node
    ELSE IF Len(penult_node) = 0 THEN DelItem(node, c) ELSE node

\* lines 59-67: what the step at index i does to the parent dict
Prune(node, c, penult_node, is_end) ==
    IF is_end
    THEN IF In(Marker, penult_node)
         THEN IF Len(penult_node) = 1
              THEN DelItem(node, c)
              ELSE SetItem(node, c, DelItem(penult_node, Marker))
         ELSE node
    ELSE IF Len(penult_node) = 0 THEN DelItem(node, c) ELSE node

\* the test with "the path exists" for self.has(word[:i])
FoundPath(node, word, i) == i = Len(word) /\ Walk(node, SubSeq(word, 1, i)).ok

\* the test without "and self.has(word[:i])"
FoundAtEnd(node, word, i) == i = Len(word)

\* lines 49-50: is_end and self.has(word[:i])
Found(node, word, i) == i = Len(word) /\ Has(node, SubSeq(word, 1, i))

\* lines 48-69: the iterations i, i-1, .., 1 of the backward loop
RECURSIVE RemoveFrom(_, _, _, _)
RemoveFrom(st, word, i, remove_word) ==
    IF i = 0 \/ st.err THEN st
    ELSE LET is_end == i = Len(word)
             found == Found(st.trie, word, i)
             st1 == IF found
                    THEN [st EXCEPT !.initials = Bump(@, word[1], -1),
                                    !.finals = Bump(@, word[Len(word)], -1)]
                    ELSE st
         IN IF ~(remove_word \/ found) THEN st1
            ELSE LET up == Walk(st1.trie, SubSeq(word, 1, i - 1))
                 IN IF ~up.ok \/ ~In(word[i], up.node)
                    THEN [st1 EXCEPT !.err = TRUE]
                    ELSE LET new == Prune(up.node, word[i],
                                          Child(up.node, word[i]), is_end)
                             st2 == [st1 EXCEPT !.trie =
                                        ReplaceAt(@, SubSeq(word, 1, i - 1), new)]
                         IN RemoveFrom(st2, word, i - 1, TRUE)

\* lines 46-69: one iteration of the loop over words
RemoveWord(st, word) == RemoveFrom(st, word, Len(word), FALSE)

RECURSIVE RemoveWords(_, _)
RemoveWords(st, words) ==
    IF words = <<>> \/ st.err THEN st
    ELSE RemoveWords(RemoveWord(st, Head(words)), Tail(words))

-----------------------------------------------------------------------------
(* initials, finals *)

\* code points of the characters of the alphabet and of the regex syntax
Ord(c) ==
    CASE c = "(" -> 40 [] c = ")" -> 41 [] c = "." -> 46 [] c = ":" -> 58
      [] c = "?" -> 63 [] c = "[" -> 91 [] c = "\\" -> 92 [] c = "]" -> 93
      [] c = "a" -> 97 [] c = "b" -> 98 [] c = "|" -> 124

\* sorted(result) for a list of distinct characters
RECURSIVE SortedChars(_)
SortedChars(S) ==
    IF S = {} THEN <<>>
    ELSE LET m == CHOOSE x \in S : \A y \in S : Ord(x) <= Ord(y)
         IN <<m>> \o SortedChars(S \ {m})

\* the filter with ">= 0" for "> 0"
NonNegative(table) == SortedChars({c \in DOMAIN table : table[c] >= 0})

\* lines 83-84, 88-89: the keys with a positive count, sorted
Positive(table) == SortedChars({c \in DOMAIN table : table[c] > 0})

-----------------------------------------------------------------------------
(* regex *)

\* the characters re.escape puts a backslash before
SpecialChars ==
    {"(", ")", "[", "]", "{", "}", "?", "*", "+", "-", "|", "^", "$", "\\",
     ".", "&", "~", "#", " "}

\* the key put into the fragment as it is
EscapeNone(c) == <<c>>

\* escape(key)
Escape(c) == IF c \in SpecialChars THEN <<"\\", c>> ELSE <<c>>

RECURSIVE Join(_, _)
\* sep.join(seqs)
Join(sep, seqs) ==
    IF seqs = <<>> THEN <<>>
    ELSE IF Len(seqs) = 1 THEN seqs[1]
    ELSE seqs[1] \o sep \o Join(sep, Tail(seqs))

\* x < y for two strings
RECURSIVE StrLess(_, _)
StrLess(x, y) ==
    IF y = <<>> THEN FALSE
    ELSE IF x = <<>> THEN TRUE
    ELSE IF Head(x) = Head(y) THEN StrLess(Tail(x), Tail(y))
    ELSE Ord(Head(x)) < Ord(Head(y))

\* the key with len(x) for -len(x): the shortest branch first
KeyLessShortFirst(x, y) == Len(x) < Len(y) \/ (Len(x) = Len(y) /\ StrLess(x, y))

\* (-len(x), x) < (-len(y), y)
KeyLess(x, y) == Len(x) > Len(y) \/ (Len(x) = Len(y) /\ StrLess(x, y))

\* the branches left in the order of the dict
Unsorted(seqs) == seqs

\* sequences.sort(key=lambda x: (-len(x), x)): a stable sort
RECURSIVE SortSequences(_)
SortSequences(seqs) ==
    IF seqs = <<>> THEN <<>>
    ELSE LET n == Len(seqs)
             done == SortSequences(SubSeq(seqs, 1, n - 1))
             x == seqs[n]
             before == {i \in DOMAIN done : ~KeyLess(x, done[i])}
             at == Cardinality(before)
         IN SubSeq(done, 1, at) \o <<x>> \o SubSeq(done, at + 1, Len(done))

\* the rule without the character class: two or more branches are always an
\* alternation
GroupNoClass(sequences, has_marker) ==
    LET result ==
            IF Len(sequences) = 1
            THEN IF Len(sequences[1]) > 1
                 THEN <<"(", "?", ":">> \o sequences[1] \o <<")">>
                 ELSE sequences[1]
            ELSE <<"(", "?", ":">> \o Join(<<"|">>, sequences) \o <<")">>
    IN IF has_marker THEN result \o <<"?">> ELSE result

\* the rule without the group around a lone branch
GroupNoWrap(sequences, has_marker) ==
    LET joined == Join(<<>>, sequences)
        result ==
            IF Len(sequences) = 1 THEN sequences[1]
            ELSE IF Len(sequences) = Len(joined)
            THEN <<"[">> \o joined \o <<"]">>
            ELSE <<"(", "?", ":">> \o Join(<<"|">>, sequences) \o <<")">>
    IN IF has_marker THEN result \o <<"?">> ELSE result

\* lines 114-125: the fragment of a node with two or more items
Group(sequences, has_marker) ==
    LET joined == Join(<<>>, sequences)
        result ==
            IF Len(sequences) = 1
            THEN IF Len(sequences[1]) > 1
                 THEN <<"(", "?", ":">> \o sequences[1] \o <<")">>
                 ELSE sequences[1]
            ELSE IF Len(sequences) = Len(joined)
            THEN <<"[">> \o joined \o <<"]">>
            ELSE <<"(", "?", ":">> \o Join(<<"|">>, sequences) \o <<")">>
    IN IF has_marker THEN result \o <<"?">> ELSE result

\* self.regex(*args) through the memoizer, on the instance whose trie is root:
\* the result and the cache after the call
RECURSIVE RegexCall(_, _, _)
RECURSIVE RegexBody(_, _, _)
RECURSIVE Branches(_, _, _)

RegexCall(root, cache, args) ==
    IF Cached(cache, args)
    THEN [res |-> CachedVal(cache, args), cache |-> cache]
    ELSE LET r == RegexBody(root, cache, args)
         IN [res |-> r.res, cache |-> Stored(r.cache, args, r.res)]

\* lines 110-111: the list comprehension over the items of node, in dict order
Branches(root, cache, items) ==
    IF items = <<>> THEN [seqs |-> <<>>, cache |-> cache]
    ELSE LET key == Head(items).k
         IN IF key = Marker THEN Branches(root, cache, Tail(items))
            ELSE LET r == RegexCall(root, cache, <<Head(items).v, FALSE>>)
                     rest == Branches(root, r.cache, Tail(items))
                 IN [seqs |-> <<Escape(key) \o r.res>> \o rest.seqs,
                     cache |-> rest.cache]

\* lines 94-125: the body of regex, called with args = (), or (node, reset)
RegexBody(root, cache, args) ==
    LET given == IF Len(args) >= 1 THEN args[1] ELSE <<>>
        reset == IF Len(args) >= 2 THEN args[2] ELSE TRUE
        node == IF reset THEN root ELSE given
    IN IF Len(node) = 0 THEN [res |-> <<>>, cache |-> cache]
       ELSE IF Len(node) = 1
       THEN LET key == node[1].k
            IN IF key = Marker THEN [res |-> <<>>, cache |-> cache]
               ELSE LET r == RegexCall(root, cache, <<node[1].v, FALSE>>)
                    IN [res |-> Escape(key) \o r.res, cache |-> r.cache]
       ELSE LET b == Branches(root, cache, node)
            IN [res |-> Group(SortSequences(b.seqs), In(Marker, node)),
                cache |-> b.cache]

-----------------------------------------------------------------------------
(* The instance and its calls *)

\* the words the trie holds a marked path for
RECURSIVE Present(_)
Present(node) ==
    UNION {IF node[i].k = Marker THEN {<<>>}
           ELSE {<<node[i].k>> \o w : w \in Present(node[i].v)} : i \in DOMAIN node}

\* the instance: its three slots and the caches of its two memoized methods
Self ==
    [trie |-> trie, initials |-> initials, finals |-> finals,
     addCache |-> addCache, regexCache |-> regexCache, err |-> FALSE]

\* line 28: self.regex.clear_cache()
ClearForAdd(self) == [self EXCEPT !.regexCache = Cleared]

\* lines 43-44: self.add.clear_cache(); self.regex.clear_cache()
ClearForRemove(self) == [self EXCEPT !.addCache = Cleared, !.regexCache = Cleared]

\* lines 28-39: the instance after the body of add has run on words
AddBody(self, words) == AddWords(ClearForAdd(self), words)

\* add without self.regex.clear_cache()
AddCallNoClear(self, words) ==
    IF Cached(self.addCache, words) THEN self
    ELSE LET st == AddWords(self, words)
         IN [st EXCEPT !.addCache = Stored(@, words, None)]

\* lines 25-39: the instance after add(*words) through the memoizer
AddCall(self, words) ==
    IF Cached(self.addCache, words) THEN self
    ELSE LET st == AddBody(self, words)
         IN [st EXCEPT !.addCache = Stored(@, words, None)]

\* remove without self.add.clear_cache()
RemoveCallKeepAdd(self, words) ==
    RemoveWords([self EXCEPT !.regexCache = Cleared], words)

\* lines 41-69: the instance after remove(*words); err when the call raised
RemoveCall(self, words) == RemoveWords(ClearForRemove(self), words)

Returned(op, changed, err) == [op |-> op, changed |-> changed, err |-> err]

\* no call is in progress; n counts the calls followed statement by statement
Idle == [op |-> "idle", n |-> 0]

\* there is no second instance
NoOther == <<>>

\* add(*words).  A call that runs the body is explored while the add cache
\* holds fewer than MaxAddCalls calls and the trie ends with at most MaxWords
\* words; a call served from the cache always is.
Add(words) ==
    LET new == AddCall(Self, words)
    IN /\ ~Cached(addCache, words) =>
            /\ Cardinality(addCache) < MaxAddCalls
            /\ Cardinality(Present(new.trie)) <= MaxWords
       /\ trie' = new.trie
       /\ initials' = new.initials
       /\ finals' = new.finals
       /\ addCache' = new.addCache
       /\ regexCache' = new.regexCache
       /\ last' = Returned("add", new.trie # trie, FALSE)
       /\ UNCHANGED <<call, other>>

\* remove(*words)
Remove(words) ==
    LET new == RemoveCall(Self, words)
    IN /\ trie' = new.trie
       /\ initials' = new.initials
       /\ finals' = new.finals
       /\ addCache' = new.addCache
       /\ regexCache' = new.regexCache
       /\ last' = Returned("remove", new.trie # trie, new.err)
       /\ UNCHANGED <<call, other>>

\* lines 71-79: has(word) returns a boolean and changes nothing
HasWord(word) ==
    /\ Has(trie, word) \in BOOLEAN
    /\ UNCHANGED vars

\* lines 81-84: initials() returns a list of characters and changes nothing
Initials ==
    /\ Positive(initials) \in Seq(Alphabet)
    /\ UNCHANGED vars

\* lines 86-89: finals() returns a list of characters and changes nothing
Finals ==
    /\ Positive(finals) \in Seq(Alphabet)
    /\ UNCHANGED vars

\* lines 91-125: regex() through the memoizer
Regex ==
    LET r == RegexCall(trie, regexCache, <<>>)
    IN /\ regexCache' = r.cache
       /\ last' = Returned("regex", FALSE, FALSE)
       /\ UNCHANGED <<trie, initials, finals, addCache, call, other>>

\* lines 19-23: TrieRegEx(*words)
New(words) ==
    AddCall([trie |-> <<>>, initials |-> NoCounts, finals |-> NoCounts,
             addCache |-> Cleared, regexCache |-> Cleared, err |-> FALSE], words)

Init ==
    \E words \in ArgTuples :
        LET new == New(words)
        IN /\ Cardinality(Present(new.trie)) <= MaxWords
           /\ trie = new.trie
           /\ initials = new.initials
           /\ finals = new.finals
           /\ addCache = new.addCache
           /\ regexCache = new.regexCache
           /\ last = Returned("init", new.trie # <<>>, FALSE)
           /\ call = Idle
           /\ other = NoOther

Next ==
    \/ \E words \in ArgTuples : Add(words)
    \/ \E words \in ArgTuples : Remove(words)
    \/ \E word \in Words : HasWord(word)
    \/ Initials
    \/ Finals
    \/ Regex

Spec == Init /\ [][Next]_vars

\* A second specification for the claims about the fragment regex builds:
\* the instance is TrieRegEx(*words) for up to MaxArgsBuilt words of up to
\* MaxLenBuilt characters, MaxCharsBuilt in all, given in every order, and
\* only the queries are called on it.
InitBuilt ==
    \E words \in BuiltTuples :
        LET new == New(words)
        IN /\ trie = new.trie
           /\ initials = new.initials
           /\ finals = new.finals
           /\ addCache = new.addCache
           /\ regexCache = new.regexCache
           /\ last = Returned("init", new.trie # <<>>, FALSE)
           /\ call = Idle
           /\ other = NoOther

NextBuilt ==
    \/ \E word \in Words : HasWord(word)
    \/ Initials
    \/ Finals
    \/ Regex

SpecBuilt == InitBuilt /\ [][NextBuilt]_vars

-----------------------------------------------------------------------------
(* A third specification, in which an add or remove call is followed        *)
(* statement by statement: the cache lookup of the memoizer, the clearing   *)
(* of the caches, one iteration of the loop over the words at a time, the   *)
(* memoizer storing the result, the return.  The instance is single         *)
(* threaded: regex is called between two calls only.                        *)

\* the statements with the loop over the words before the clearing
StatementsLoopFirst(op) ==
    IF op = "add" THEN <<"loop", "clear", "store">> ELSE <<"loop", "clear">>

\* lines 28-39 and the memoizer around them, lines 43-69: the statements of
\* a call in the order they run
Statements(op) ==
    IF op = "add" THEN <<"clear", "loop", "store">> ELSE <<"clear", "loop">>

\* the statement the call in progress is at, "return" after the last one
At ==
    IF call.op = "idle" THEN "idle"
    ELSE IF call.at > Len(Statements(call.op)) THEN "return"
    ELSE Statements(call.op)[call.at]

Entered(op, words) ==
    [op |-> op, args |-> words, at |-> 1, i |-> 1, n |-> call.n + 1, start |-> Self]

SetSelf(new) ==
    /\ trie' = new.trie
    /\ initials' = new.initials
    /\ finals' = new.finals
    /\ addCache' = new.addCache
    /\ regexCache' = new.regexCache

\* add(*words) is called: the memoizer returns at once when it holds the
\* arguments, and enters the body otherwise
BeginAdd(words) ==
    /\ call.op = "idle"
    /\ call.n < MaxSteppedCalls
    /\ IF Cached(addCache, words)
       THEN /\ call' = [Idle EXCEPT !.n = call.n + 1]
            /\ last' = Returned("add", FALSE, FALSE)
       ELSE /\ call' = Entered("add", words)
            /\ UNCHANGED last
    /\ UNCHANGED <<trie, initials, finals, addCache, regexCache, other>>

\* remove(*words) is called
BeginRemove(words) ==
    /\ call.op = "idle"
    /\ call.n < MaxSteppedCalls
    /\ call' = Entered("remove", words)
    /\ UNCHANGED <<trie, initials, finals, addCache, regexCache, last, other>>

\* line 28, lines 43-44
Clear ==
    /\ At = "clear"
    /\ SetSelf(IF call.op = "add" THEN ClearForAdd(Self) ELSE ClearForRemove(Self))
    /\ call' = [call EXCEPT !.at = @ + 1]
    /\ UNCHANGED <<last, other>>

\* lines 30-39, lines 46-69: one iteration of the loop over the words, or
\* the end of the loop; a remove that raises ends there
Loop ==
    /\ At = "loop"
    /\ IF call.i > Len(call.args)
       THEN /\ call' = [call EXCEPT !.at = @ + 1]
            /\ UNCHANGED <<trie, initials, finals, addCache, regexCache, last>>
       ELSE LET word == call.args[call.i]
                new == IF call.op = "add" THEN AddWord(Self, word)
                       ELSE RemoveWord(Self, word)
            IN /\ SetSelf(new)
               /\ IF new.err
                  THEN /\ call' = [Idle EXCEPT !.n = call.n]
                       /\ last' = Returned(call.op, new.trie # call.start.trie, TRUE)
                  ELSE /\ call' = [call EXCEPT !.i = @ + 1]
                       /\ UNCHANGED last
    /\ UNCHANGED other

\* the memoizer stores what the body of add returned
Store ==
    /\ At = "store"
    /\ addCache' = Stored(addCache, call.args, None)
    /\ call' = [call EXCEPT !.at = @ + 1]
    /\ UNCHANGED <<trie, initials, finals, regexCache, last, other>>

\* the call returns
Return ==
    /\ At = "return"
    /\ call' = [Idle EXCEPT !.n = call.n]
    /\ last' = Returned(call.op, trie # call.start.trie, FALSE)
    /\ UNCHANGED <<trie, initials, finals, addCache, regexCache, other>>

\* regex() between two calls
RegexWhenIdle == call.op = "idle" /\ Regex

NextSteps ==
    \/ \E words \in ArgTuples : BeginAdd(words)
    \/ \E words \in ArgTuples : BeginRemove(words)
    \/ Clear
    \/ Loop
    \/ Store
    \/ Return
    \/ RegexWhenIdle

SpecSteps == Init /\ [][NextSteps]_vars

-----------------------------------------------------------------------------
(* A fourth specification, with two instances: "A", whose slots are the     *)
(* variables trie, initials and finals, and "B", whose slots are the record *)
(* other.  add and regex are attributes of the class, so each has one cache *)
(* for both instances: the variables addCache and regexCache, whose keys    *)
(* are the arguments of the call with the instance in the first place, and  *)
(* which clear_cache empties for both instances.                            *)

Instances == {"A", "B"}

TwoTuples == {t \in ArgTuples : Len(t) <= MaxArgsTwo}

\* the key of a call of a memoized method on the instance inst
Key(inst, args) == <<inst>> \o args

\* the items of the cache that calls on inst find, under the arguments after self
ViewOf(cache, inst) ==
    {[key |-> Tail(e.key), val |-> e.val] :
        e \in {x \in cache : x.key = Key(inst, Tail(x.key))}}

\* the cache after a call on inst that leaves view as the items calls on inst find
Merged(cache, inst, view) ==
    {x \in cache : x.key # Key(inst, Tail(x.key))}
        \cup {[key |-> Key(inst, e.key), val |-> e.val] : e \in view}

\* the three slots of the instance inst
Slots(inst) ==
    IF inst = "A" THEN [trie |-> trie, initials |-> initials, finals |-> finals]
    ELSE other

\* the two instances and the two caches
World ==
    [slots |-> [inst \in Instances |-> Slots(inst)],
     addCache |-> addCache, regexCache |-> regexCache]

\* the slots as attributes of the class: every instance has those of "A"
InstanceShared(w, inst) ==
    [trie |-> w.slots["A"].trie, initials |-> w.slots["A"].initials,
     finals |-> w.slots["A"].finals, addCache |-> ViewOf(w.addCache, inst),
     regexCache |-> ViewOf(w.regexCache, inst), err |-> FALSE]

\* lines 19-22: self in a call on the instance inst: its own slots, and the
\* caches as its calls find them
InstanceIn(w, inst) ==
    [trie |-> w.slots[inst].trie, initials |-> w.slots[inst].initials,
     finals |-> w.slots[inst].finals, addCache |-> ViewOf(w.addCache, inst),
     regexCache |-> ViewOf(w.regexCache, inst), err |-> FALSE]

InstanceOf(inst) == InstanceIn(World, inst)

\* the slots of inst are those of new
WithSlots(w, inst, new) ==
    [w EXCEPT !.slots[inst] =
        [trie |-> new.trie, initials |-> new.initials, finals |-> new.finals]]

\* the instances and the caches after inst.add(*words): clear_cache empties
\* the cache of regex for both instances
AddOnCall(w, inst, words) ==
    LET self == InstanceIn(w, inst)
        new == AddCall(self, words)
    IN IF Cached(self.addCache, words) THEN w
       ELSE [WithSlots(w, inst, new) EXCEPT
                !.addCache = Merged(w.addCache, inst, new.addCache),
                !.regexCache = Cleared]

\* the instances and the caches after inst.remove(*words)
RemoveOnCall(w, inst, words) ==
    [WithSlots(w, inst, RemoveCall(InstanceIn(w, inst), words)) EXCEPT
        !.addCache = Cleared, !.regexCache = Cleared]

\* the instances and the caches after inst.regex()
RegexOnCall(w, inst) ==
    LET self == InstanceIn(w, inst)
        r == RegexCall(self.trie, self.regexCache, <<>>)
    IN [w EXCEPT !.regexCache = Merged(w.regexCache, inst, r.cache)]

SetWorld(w) ==
    /\ trie' = w.slots["A"].trie
    /\ initials' = w.slots["A"].initials
    /\ finals' = w.slots["A"].finals
    /\ other' = w.slots["B"]
    /\ addCache' = w.addCache
    /\ regexCache' = w.regexCache

ReturnedOn(inst, op, changed, err) ==
    [op |-> op, changed |-> changed, err |-> err, inst |-> inst, n |-> last.n + 1]

\* inst.add(*words)
AddOn(inst, words) ==
    LET new == AddOnCall(World, inst, words)
    IN /\ last.n < MaxCallsTwo
       /\ SetWorld(new)
       /\ last' = ReturnedOn(inst, "add", new.slots[inst].trie # Slots(inst).trie, FALSE)
       /\ UNCHANGED call

\* inst.remove(*words)
RemoveOn(inst, words) ==
    LET new == RemoveOnCall(World, inst, words)
    IN /\ last.n < MaxCallsTwo
       /\ SetWorld(new)
       /\ last' = ReturnedOn(inst, "remove", new.slots[inst].trie # Slots(inst).trie,
                             RemoveCall(InstanceOf(inst), words).err)
       /\ UNCHANGED call

\* inst.regex()
RegexOn(inst) ==
    /\ last.n < MaxCallsTwo
    /\ SetWorld(RegexOnCall(World, inst))
    /\ last' = ReturnedOn(inst, "regex", FALSE, FALSE)
    /\ UNCHANGED call

\* inst.has(word), inst.initials(), inst.finals()
HasOn(inst, word) ==
    /\ Has(InstanceOf(inst).trie, word) \in BOOLEAN
    /\ UNCHANGED vars

InitialsOn(inst) ==
    /\ Positive(InstanceOf(inst).initials) \in Seq(Alphabet)
    /\ UNCHANGED vars

FinalsOn(inst) ==
    /\ Positive(InstanceOf(inst).finals) \in Seq(Alphabet)
    /\ UNCHANGED vars

\* A = TrieRegEx(); B = TrieRegEx()
InitTwo ==
    LET new == New(<<>>)
    IN /\ trie = new.trie
       /\ initials = new.initials
       /\ finals = new.finals
       /\ other = [trie |-> new.trie, initials |-> new.initials,
                    finals |-> new.finals]
       /\ addCache = Merged(Merged(Cleared, "A", new.addCache), "B", new.addCache)
       /\ regexCache = Cleared
       /\ last = [op |-> "init", changed |-> FALSE, err |-> FALSE,
                   inst |-> "B", n |-> 0]
       /\ call = Idle

NextTwo ==
    \/ \E inst \in Instances : \E words \in TwoTuples : AddOn(inst, words)
    \/ \E inst \in Instances : \E words \in TwoTuples : RemoveOn(inst, words)
    \/ \E inst \in Instances : RegexOn(inst)
    \/ \E inst \in Instances : \E word \in Words : HasOn(inst, word)
    \/ \E inst \in Instances : InitialsOn(inst)
    \/ \E inst \in Instances : FinalsOn(inst)

SpecTwo == InitTwo /\ [][NextTwo]_vars

-----------------------------------------------------------------------------
(* What a fragment matches.  The fragment is read as Python's re reads it:   *)
(* a backslash makes the next character a literal, [..] is a character       *)
(* class, (?:..|..) a non-capturing group of alternatives, ? makes the item  *)
(* before it optional, an unescaped "." is any character, and every other    *)
(* character is itself.  Such a pattern has no repetition, so the strings     *)
(* that ^(?:fragment)$ matches are a finite set.                              *)

RECURSIVE ParseAlt(_, _)
RECURSIVE ParseSeq(_, _)
RECURSIVE ParseClass(_, _)

\* the characters of the class whose body starts at s[i], and the index after "]"
ParseClass(s, i) ==
    IF s[i] = "]" THEN [chars |-> {}, next |-> i + 1]
    ELSE LET esc == s[i] = "\\"
             c == IF esc THEN s[i + 1] ELSE s[i]
             r == ParseClass(s, IF esc THEN i + 2 ELSE i + 1)
         IN [chars |-> {c} \cup r.chars, next |-> r.next]

\* one item starting at s[i]: the strings it matches and the index after it
ParseAtom(s, i) ==
    IF s[i] = "\\" THEN [lang |-> {<<s[i + 1]>>}, next |-> i + 2]
    ELSE IF s[i] = "[" THEN
        LET c == ParseClass(s, i + 1)
        IN [lang |-> {<<x>> : x \in c.chars}, next |-> c.next]
    ELSE IF s[i] = "(" THEN
        LET a == ParseAlt(s, i + 3)
        IN [lang |-> a.lang, next |-> a.next + 1]
    ELSE IF s[i] = "." THEN [lang |-> {<<x>> : x \in Alphabet}, next |-> i + 1]
    ELSE [lang |-> {<<s[i]>>}, next |-> i + 1]

\* a run of items, each with or without "?", up to "|", ")" or the end
ParseSeq(s, i) ==
    IF i > Len(s) \/ s[i] \in {"|", ")"} THEN [lang |-> {<<>>}, next |-> i]
    ELSE LET a == ParseAtom(s, i)
             opt == a.next <= Len(s) /\ s[a.next] = "?"
             first == IF opt THEN a.lang \cup {<<>>} ELSE a.lang
             r == ParseSeq(s, IF opt THEN a.next + 1 ELSE a.next)
         IN [lang |-> {x \o y : x \in first, y \in r.lang}, next |-> r.next]

\* alternatives separated by "|", up to ")" or the end
ParseAlt(s, i) ==
    LET a == ParseSeq(s, i)
    IN IF a.next <= Len(s) /\ s[a.next] = "|"
       THEN LET b == ParseAlt(s, a.next + 1)
            IN [lang |-> a.lang \cup b.lang, next |-> b.next]
       ELSE a

\* the strings w that ^(?:fragment)$ matches
Language(fragment) == ParseAlt(fragment, 1).lang

\* what a call of regex() on the instance returns now
RegexNow == RegexCall(trie, regexCache, <<>>).res

-----------------------------------------------------------------------------
(* C1 *)

\* C1 as claimed: the anchored pattern matches a string w exactly when has(w)
C1_Exact == \A w \in Language(RegexNow) \cup Words : w \in Language(RegexNow) <=> Has(trie, w)

\* C1 (amended): read as ^(?:fragment)$, the fragment regex() returns matches
\* a non-empty string w exactly when has(w) is true; it matches the empty
\* string exactly when no word is present (the fragment is then empty).
C1_ExactNonEmpty ==
    /\ \A w \in (Language(RegexNow) \cup Words) \ {<<>>} :
            w \in Language(RegexNow) <=> Has(trie, w)
    /\ <<>> \in Language(RegexNow) <=> Present(trie) = {}

C1_Witness ==
    /\ last.op = "regex"
    /\ Present(trie) = {<<"a">>, <<"a", ".">>}
    /\ RegexNow = <<"a", "(", "?", ":", "\\", ".", ")", "?">>
    /\ regexCache # {}

-----------------------------------------------------------------------------
(* C2 - C10.  A claim about what holds after a call is stated over the     *)
(* instance the call returns in, for every reachable instance and every     *)
(* argument tuple the call can be given.                                    *)

Range(t) == {t[i] : i \in DOMAIN t}

\* what regex() returns on the instance self
RegexOf(self) == RegexCall(self.trie, self.regexCache, <<>>).res

\* C2: in every reachable state, after add(w1..wn) returns (served from the
\* add cache or not), has(wi) is true for every non-empty wi.
C2_MemberAfterAdd ==
    \A words \in ArgTuples : \A w \in Range(words) :
        w # <<>> => Has(AddCall(Self, words).trie, w)

C2_Witness ==
    /\ last.op = "add"
    /\ ~last.changed
    /\ Cached(addCache, <<<<"a">>, <<"a", "b">>>>)
    /\ Has(trie, <<"a">>) /\ Has(trie, <<"a", "b">>)

\* C3: in every reachable state, after remove(w1..wn) returns, has(wi) is
\* false for every wi, present before the call or not.
C3_AbsentAfterRemove ==
    \A words \in ArgTuples : \A w \in Range(words) :
        ~Has(RemoveCall(Self, words).trie, w)

C3_Witness ==
    /\ last.op = "remove"
    /\ last.changed
    /\ Present(trie) = {<<"a", "b">>}
    /\ trie = <<[k |-> "a", v |-> <<[k |-> "b", v |-> <<[k |-> Marker, v |-> <<>>]>>]>>]>>

\* C4: every regex() call returns what a synthesis with an empty cache returns
\* for the trie as it is, and so does every entry the regex cache holds.
C4_NeverStale ==
    /\ RegexNow = RegexCall(trie, Cleared, <<>>).res
    /\ \A e \in regexCache : e.val = RegexCall(trie, Cleared, e.key).res

C4_Witness ==
    /\ last.op = "add"
    /\ regexCache # {}
    /\ Cardinality(Present(trie)) = 2

\* C5: add(ws) and remove(ws) leave has(v) as it was for every word v that is
\* not among ws.
C5_OthersKept ==
    \A words \in ArgTuples :
        LET added == AddCall(Self, words).trie
            removed == RemoveCall(Self, words).trie
        IN \A v \in Words \ Range(words) :
                /\ Has(added, v) <=> Has(trie, v)
                /\ Has(removed, v) <=> Has(trie, v)

C5_Witness ==
    /\ last.op = "add"
    /\ Present(trie) = {<<"a">>, <<"a", "b">>}
    /\ Has(RemoveCall(Self, <<<<"a">>>>).trie, <<"a", "b">>)
    /\ Has(RemoveCall(Self, <<<<"a", "b">>>>).trie, <<"a">>)

\* C6: remove of words none of which is present (the empty word, a proper
\* prefix of a present word, ..) leaves the trie, both frequency tables and
\* the value of regex() as they were.
C6_NoOpRemoval ==
    \A words \in ArgTuples :
        (\A w \in Range(words) : ~Has(trie, w)) =>
            LET new == RemoveCall(Self, words)
            IN /\ new.trie = trie
               /\ new.initials = initials
               /\ new.finals = finals
               /\ RegexOf(new) = RegexNow

C6_Witness ==
    /\ last.op = "remove"
    /\ ~last.changed
    /\ Present(trie) = {<<"a", "b">>}
    /\ ~Has(trie, <<"a">>)

\* r lists characters in ascending order without duplicates
Ascending(r) == \A i, j \in DOMAIN r : i < j => Ord(r[i]) < Ord(r[j])

\* C7: initials() is the first characters of the present words, and finals()
\* their last characters, each ascending and without duplicates.
C7_InitialsFinals ==
    /\ Range(Positive(initials)) = {w[1] : w \in Present(trie)}
    /\ Range(Positive(finals)) = {w[Len(w)] : w \in Present(trie)}
    /\ Ascending(Positive(initials))
    /\ Ascending(Positive(finals))

C7_Witness ==
    /\ last.op = "remove"
    /\ last.changed
    /\ Positive(initials) = <<".">>
    /\ Positive(finals) = <<"b">>

\* what a caller can see of an instance
Seen(self) ==
    <<self.trie, self.initials, self.finals, Positive(self.initials),
      Positive(self.finals), RegexOf(self)>>

\* C8: add of words that are all present (or empty) leaves the trie, both
\* tables, initials(), finals() and regex() as they were, and a word given
\* twice in one call leaves them as the word given once does.
C8_Idempotent ==
    /\ \A words \in ArgTuples :
            (\A w \in Range(words) : w = <<>> \/ Has(trie, w)) =>
                Seen(AddCall(Self, words)) = Seen(Self)
    /\ \A w \in Words :
            Seen(AddCall(Self, <<w, w>>)) = Seen(AddCall(Self, <<w>>))

C8_Witness ==
    /\ last.op = "add"
    /\ ~last.changed
    /\ Present(trie) = {<<"a">>, <<"b">>}
    /\ ~Cached(addCache, <<<<"a">>, <<"b">>>>)
    /\ addCache # {}

\* C9: has("") is false in every reachable state, and add("") changes neither
\* the trie nor the tables.
C9_EmptyNeverPresent ==
    /\ ~Has(trie, <<>>)
    /\ ~In(Marker, trie)
    /\ LET new == AddCall(Self, <<<<>>>>)
       IN new.trie = trie /\ new.initials = initials /\ new.finals = finals

C9_Witness ==
    /\ last.op = "add"
    /\ Cached(addCache, <<<<>>>>)
    /\ trie # <<>>

\* the characters of a fragment: escaped keys and the regex syntax
FragmentChars == Alphabet \cup {"\\", "(", "?", ":", ")", "[", "]", "|"}

\* C10: no call raises: remove never looks up a missing child, and regex
\* returns a fragment for every reachable trie.
C10_NoFault ==
    /\ ~last.err
    /\ \A words \in ArgTuples : ~RemoveCall(Self, words).err
    /\ RegexNow \in Seq(FragmentChars)

C10_Witness ==
    /\ last.op = "remove"
    /\ last.changed
    /\ trie = <<>>
    /\ RegexNow = <<>>

-----------------------------------------------------------------------------
(* C11 - C14, C19: the shape of the trie and of the tables.                  *)

\* the paths of characters that lead from node to a node below it
RECURSIVE NodePaths(_)
NodePaths(node) ==
    UNION {IF node[i].k = Marker THEN {}
           ELSE {<<node[i].k>>} \cup
                {<<node[i].k>> \o p : p \in NodePaths(node[i].v)} : i \in DOMAIN node}

\* the non-empty prefixes of the words of S
Prefixes(S) == UNION {{SubSeq(w, 1, n) : n \in 1..Len(w)} : w \in S}

\* C11: in every reachable state where no word is present, the root node has
\* no entries and regex() returns the empty fragment; so it is after a remove
\* call that leaves no word.
C11_EmptyWhenNoWords ==
    /\ Present(trie) = {} => (trie = <<>> /\ RegexNow = <<>>)
    /\ \A words \in ArgTuples :
          LET new == RemoveCall(Self, words)
          IN (~new.err /\ Present(new.trie) = {}) =>
                 (new.trie = <<>> /\ RegexOf(new) = <<>>)

C11_Witness ==
    /\ last.op = "remove"
    /\ last.changed
    /\ Present(trie) = {}
    /\ addCache = {} /\ regexCache = {}

\* every node below node that a character leads to has at least one entry
RECURSIVE NoDeadNodes(_)
NoDeadNodes(node) ==
    \A i \in DOMAIN node :
        IF node[i].k = Marker THEN node[i].v = <<>>
        ELSE Len(node[i].v) > 0 /\ NoDeadNodes(node[i].v)

\* C12: in every reachable state every node a character leads to has at
\* least one entry, and the nodes are exactly the prefixes of the present
\* words; remove(w1..wn) deletes exactly the nodes that no word still present
\* after the call needs.
C12_NoDeadNodes ==
    /\ NoDeadNodes(trie)
    /\ NodePaths(trie) = Prefixes(Present(trie))
    /\ \A words \in ArgTuples :
          LET new == RemoveCall(Self, words)
          IN ~new.err =>
                 /\ NoDeadNodes(new.trie)
                 /\ NodePaths(new.trie) = Prefixes(Present(trie) \ Range(words))

C12_Witness ==
    /\ last.op = "remove"
    /\ last.changed
    /\ Present(trie) = {<<"a">>}
    /\ NodePaths(trie) = {<<"a">>}

\* the tables of self count the present words by first and by last character
Exact(self) ==
    \A c \in Alphabet :
        /\ self.initials[c] = Cardinality({w \in Present(self.trie) : w[1] = c})
        /\ self.finals[c] = Cardinality({w \in Present(self.trie) : w[Len(w)] = c})
        /\ self.initials[c] >= 0
        /\ self.finals[c] >= 0

\* C13: in every reachable state, and after every add and remove call made
\* in it (of present or absent words, of a word given twice), the count of
\* first characters and the count of last characters of every character c
\* equal the number of present words that start, respectively end, with c, and
\* no count is negative.
C13_TablesExact ==
    /\ Exact(Self)
    /\ \A words \in ArgTuples :
          /\ Exact(AddCall(Self, words))
          /\ Exact(RemoveCall(Self, words))

C13_Witness ==
    /\ last.op = "remove"
    /\ last.changed
    /\ Present(trie) = {<<"a", "b">>}
    /\ initials["a"] = 1 /\ finals["b"] = 1 /\ finals["a"] = 0

\* C14: in every reachable state, for every argument tuple the add cache
\* holds, every non-empty word of the tuple is present, and running the body
\* of add on the tuple would leave the trie, the two tables and the result of
\* regex() as the skipped call leaves them.
C14_SkipIsSafe ==
    \A words \in ArgTuples :
        Cached(addCache, words) =>
            LET skipped == AddCall(Self, words)
                run == AddBody(Self, words)
            IN /\ \A w \in Range(words) : w # <<>> => Has(trie, w)
               /\ skipped.trie = run.trie
               /\ skipped.initials = run.initials
               /\ skipped.finals = run.finals
               /\ RegexOf(skipped) = RegexOf(run)

C14_Witness ==
    /\ last.op = "regex"
    /\ Cached(addCache, <<<<"a", "b">>, <<"b">>>>)
    /\ Cached(regexCache, <<>>)
    /\ Present(trie) = {<<"a", "b">>, <<"b">>}

\* a dict compared by content: the set of its items
RECURSIVE Content(_)
Content(node) == {[k |-> node[i].k, v |-> Content(node[i].v)] : i \in DOMAIN node}

\* the words of S in one fixed order
RECURSIVE SeqOf(_)
SeqOf(S) ==
    IF S = {} THEN <<>>
    ELSE LET w == CHOOSE x \in S : TRUE IN <<w>> \o SeqOf(S \ {w})

\* the instance TrieRegEx() after one add call for each word of S
Fresh(S) ==
    AddWords([trie |-> <<>>, initials |-> NoCounts, finals |-> NoCounts,
              addCache |-> Cleared, regexCache |-> Cleared, err |-> FALSE], SeqOf(S))

\* C19: in every reachable state the content of the trie and the results of
\* initials(), finals() and regex() are those of a new instance to which the
\* present words were added in one fixed order: they depend on the set of
\* present words only.
C19_HistoryIndependent ==
    LET fresh == Fresh(Present(trie))
    IN /\ Content(trie) = Content(fresh.trie)
       /\ Positive(initials) = Positive(fresh.initials)
       /\ Positive(finals) = Positive(fresh.finals)
       /\ RegexNow = RegexOf(fresh)

C19_Witness ==
    /\ last.op = "add"
    /\ last.changed
    /\ Cardinality(Present(trie)) = 2
    /\ Len(trie) = 2
    /\ trie # Fresh(Present(trie)).trie
    /\ Cached(regexCache, <<>>) = FALSE

-----------------------------------------------------------------------------
(* C16 - C18: the fragment of a node with two or more entries, for every     *)
(* node of the trie the constructor builds (SpecBuilt).                      *)

\* node and every node below it
RECURSIVE SubNodes(_)
SubNodes(node) ==
    {node} \cup UNION {SubNodes(node[i].v) : i \in DOMAIN node}

\* what regex returns for the node n of the trie
Frag(n) == RegexCall(trie, Cleared, <<n, FALSE>>).res

\* the branch texts of n in the order regex emits them (the list of line 112)
Texts(n) == SortSequences(Branches(trie, Cleared, n).seqs)

\* the keys of n that are characters
RealKeys(n) == Keys(n) \ {Marker}

\* the escaped form of every character of the text p
EscapeAll(p) == Join(<<>>, [i \in DOMAIN p |-> Escape(p[i])])

\* the fragment of n without the quantifier the marker adds
Unit(n) ==
    IF In(Marker, n) THEN SubSeq(Frag(n), 1, Len(Frag(n)) - 1) ELSE Frag(n)

\* the rule of C16 for every node with two or more branches
ClassRule ==
    \A n \in SubNodes(trie) :
        Cardinality(RealKeys(n)) >= 2 =>
            LET texts == Texts(n)
            IN /\ Len(texts) = Cardinality(RealKeys(n))
               /\ IF TotalLen(texts) = Len(texts)
                  THEN /\ \A i \in DOMAIN texts : Len(texts[i]) = 1
                       /\ Unit(n) = <<"[">> \o Join(<<>>, texts) \o <<"]">>
                  ELSE /\ \E i \in DOMAIN texts : Len(texts[i]) > 1
                       /\ Unit(n) = <<"(", "?", ":">> \o Join(<<"|">>, texts)
                                        \o <<")">>

\* the present words are exactly p+c and p+d, c < d and neither is escaped
TwoEndings(p, c, d) ==
    /\ Present(trie) = {p \o <<c>>, p \o <<d>>}
    /\ Ord(c) < Ord(d)
    /\ Escape(c) = <<c>> /\ Escape(d) = <<d>>

\* C16 as stated: for a node with two or more branches the result is a
\* character class over the joined branch texts exactly when their total
\* length equals their number, and an alternation group otherwise; and when
\* the present words are exactly p+c and p+d, regex() is the text p followed
\* by [cd].
C16_ClassRuleTextPrefix ==
    /\ ClassRule
    /\ \A w \in Present(trie) : \A c, d \in Alphabet :
          LET p == SubSeq(w, 1, Len(w) - 1)
          IN TwoEndings(p, c, d) => RegexNow = p \o <<"[", c, d, "]">>

\* C16: for a node with two or more branches the result is a character class
\* over the joined branch texts exactly when their total length equals their
\* number (every branch text is one character), and an alternation group
\* otherwise; and when the present words are exactly p+c and p+d, regex() is
\* the escaped form of p followed by [cd].
C16_ClassRule ==
    /\ ClassRule
    /\ \A w \in Present(trie) : \A c, d \in Alphabet :
          LET p == SubSeq(w, 1, Len(w) - 1)
          IN TwoEndings(p, c, d) => RegexNow = EscapeAll(p) \o <<"[", c, d, "]">>

C16_Witness ==
    /\ last.op = "regex"
    /\ TwoEndings(<<".">>, "a", "b")
    /\ CachedVal(regexCache, <<>>) = <<"\\", ".", "[", "a", "b", "]">>

\* a fragment that is one unit for a quantifier: one character, a character
\* class, or a non-capturing group
IsClass(f) == Len(f) >= 3 /\ f[1] = "[" /\ f[Len(f)] = "]"

IsGroup(f) == Len(f) >= 5 /\ SubSeq(f, 1, 3) = <<"(", "?", ":">> /\ f[Len(f)] = ")"

\* the rule of C17 for every node with two or more entries
OptionalRule ==
    \A n \in SubNodes(trie) :
        Len(n) >= 2 =>
            LET f == Frag(n)
                texts == Texts(n)
            IN /\ (f[Len(f)] = "?") <=> In(Marker, n)
               /\ Len(Unit(n)) = 1 \/ IsClass(Unit(n)) \/ IsGroup(Unit(n))
               /\ Len(texts) = 1 =>
                     /\ Len(texts[1]) > 1 <=> IsGroup(Unit(n))
                     /\ Len(texts[1]) > 1 =>
                            Unit(n) = <<"(", "?", ":">> \o texts[1] \o <<")">>
                     /\ Len(texts[1]) = 1 => Unit(n) = texts[1]
               /\ Language(f) = Present(n)

\* the present words are exactly p and p+c, and c is not escaped
OneEnding(p, c) ==
    /\ Present(trie) = {p, p \o <<c>>}
    /\ Escape(c) = <<c>>

\* C17 as stated: for a node with two or more entries the result ends with
\* "?" exactly when the node holds the marker, and the quantifier applies to
\* one unit (a lone branch being wrapped in a group exactly when its text is
\* longer than one character); and when the present words are exactly p and
\* p+c, regex() is the text p followed by c?.
C17_OptionalRuleTextPrefix ==
    /\ OptionalRule
    /\ \A p \in Present(trie) : \A c \in Alphabet :
          OneEnding(p, c) => RegexNow = p \o <<c, "?">>

\* C17: for a node with two or more entries the result ends with "?" exactly
\* when the node holds the marker, and the quantifier applies to one unit: a
\* one-character branch text, a character class or a non-capturing group (a
\* lone branch being wrapped in a group exactly when its text is longer than
\* one character), so that the fragment matches the words below the node and
\* no others; and when the present words are exactly p and p+c, regex() is the
\* escaped form of p followed by c?.
C17_OptionalRule ==
    /\ OptionalRule
    /\ \A p \in Present(trie) : \A c \in Alphabet :
          OneEnding(p, c) => RegexNow = EscapeAll(p) \o <<c, "?">>

C17_Witness ==
    /\ last.op = "regex"
    /\ Present(trie) = {<<"a">>, <<"a", "b", ".">>}
    /\ CachedVal(regexCache, <<>>) =
           <<"a", "(", "?", ":", "b", "\\", ".", ")", "?">>

\* x comes before y: x is longer, or as long and smaller as a string
Before(x, y) ==
    \/ Len(x) > Len(y)
    \/ /\ Len(x) = Len(y)
       /\ \E i \in DOMAIN x :
            /\ Ord(x[i]) < Ord(y[i])
            /\ \A j \in 1..(i - 1) : x[j] = y[j]

\* the dict n with its items in the opposite order
Reversed(n) == [i \in DOMAIN n |-> n[Len(n) + 1 - i]]

\* C18: for every node with two or more branches, the branch texts that
\* regex emits are one text for each character key (none for the marker), in
\* descending length and, at equal length, in ascending lexicographic order;
\* the fragment lists them in that order and is the same for the node with
\* its children inserted in the opposite order.
C18_BranchOrder ==
    \A n \in SubNodes(trie) :
        Cardinality(RealKeys(n)) >= 2 =>
            LET texts == Texts(n)
            IN /\ Range(texts) = {Escape(k) \o Frag(Child(n, k)) : k \in RealKeys(n)}
               /\ Len(texts) = Cardinality(RealKeys(n))
               /\ \A i, j \in DOMAIN texts : i < j => Before(texts[i], texts[j])
               /\ Unit(n) \in {<<"[">> \o Join(<<>>, texts) \o <<"]">>,
                               <<"(", "?", ":">> \o Join(<<"|">>, texts) \o <<")">>}
               /\ Frag(Reversed(n)) = Frag(n)

C18_Witness ==
    /\ last.op = "regex"
    /\ Len(trie) = 3
    /\ trie[1].k = "b" /\ trie[2].k = "a" /\ trie[3].k = "."
    /\ Present(trie) = {<<"b">>, <<"a">>, <<".">>}
    /\ CachedVal(regexCache, <<>>) = <<"(", "?", ":", "\\", ".", "|", "a", "|", "b", ")">>

-----------------------------------------------------------------------------
(* C15: the order of clearing and changing inside one call (SpecSteps).      *)

\* a call followed statement by statement returns in the instance that
\* AddCall and RemoveCall give for it
StepsAgree ==
    At = "return" =>
        LET new == IF call.op = "add" THEN AddCall(call.start, call.args)
                   ELSE RemoveCall(call.start, call.args)
        IN Self = new

\* the step changes a node of the trie or a counter
Touches == trie' # trie \/ initials' # initials \/ finals' # finals

\* the call in progress has cleared what it clears when it is at its loop
\* over the words or past it; every step of it that reads or changes the trie
\* is made there
ClearedFirst ==
    /\ At \in {"loop", "store", "return"} => regexCache = Cleared
    /\ (call.op = "remove" /\ At \in {"loop", "return"}) => addCache = Cleared

\* remove has cleared both caches when it returns, whatever its arguments
ClearedAfterRemove ==
    (call.op = "idle" /\ last.op = "remove") =>
        (addCache = Cleared /\ regexCache = Cleared)

\* C15 as stated: every remove call clears both caches, whatever its
\* arguments, before it reads or changes the trie; every add call that runs
\* its body clears the pattern cache before it reads or changes the trie; and
\* both caches are empty at every step that changes a node or a counter.
C15_BothEmptyOnChange ==
    /\ [](ClearedFirst /\ ClearedAfterRemove)
    /\ [][Touches => (At = "loop" /\ addCache = Cleared /\ regexCache = Cleared)]_vars

\* C15: every remove call clears both caches, whatever its arguments, before
\* it reads or changes the trie; every add call that runs its body clears the
\* pattern cache before it reads or changes the trie; and at every step that
\* changes a node or a counter the pattern cache is empty, and the add cache
\* is empty when the step is one of remove.
C15_ClearedBeforeChange ==
    /\ [](ClearedFirst /\ ClearedAfterRemove)
    /\ [][Touches =>
            /\ At = "loop"
            /\ regexCache = Cleared /\ regexCache' = Cleared
            /\ call.op = "remove" => (addCache = Cleared /\ addCache' = Cleared)]_vars

C15_Witness ==
    /\ call.op = "remove"
    /\ At = "loop"
    /\ call.i = 2
    /\ call.args = <<<<"a">>, <<"b">>>>
    /\ call.start.addCache # Cleared
    /\ call.start.regexCache # Cleared
    /\ trie # call.start.trie
    /\ addCache = Cleared /\ regexCache = Cleared

-----------------------------------------------------------------------------
(* C20: two instances (SpecTwo).                                             *)

\* what has, initials, finals and regex return on the instance inst
ObservedIn(w, inst) ==
    LET self == InstanceIn(w, inst)
    IN <<{x \in Words : Has(self.trie, x)}, Positive(self.initials),
         Positive(self.finals), RegexOf(self)>>

\* the instances and caches after each call that can be made on inst
AfterCallsOn(inst) ==
    {AddOnCall(World, inst, words) : words \in TwoTuples}
        \cup {RemoveOnCall(World, inst, words) : words \in TwoTuples}
        \cup {RegexOnCall(World, inst)}

\* C20: with two instances that share the cache of add and the cache of
\* regex, keyed by the instance and the arguments, in every reachable state
\* no add, remove or regex call on one instance changes what has, initials,
\* finals and regex return on the other; add(w) on an instance leaves w
\* present in it, also after add(w) on the other; and regex() on an instance
\* returns the fragment of its own words.
C20_Isolation ==
    \A inst \in Instances :
        /\ \A o \in Instances \ {inst} : \A w \in AfterCallsOn(inst) :
              ObservedIn(w, o) = ObservedIn(World, o)
        /\ \A words \in TwoTuples : \A x \in Range(words) :
              x # <<>> => Has(AddOnCall(World, inst, words).slots[inst].trie, x)
        /\ RegexOf(InstanceOf(inst)) = RegexCall(Slots(inst).trie, Cleared, <<>>).res

C20_Witness ==
    /\ last.op = "add"
    /\ last.inst = "B"
    /\ last.changed
    /\ Has(trie, <<"a">>)
    /\ Has(other.trie, <<"a">>)
    /\ Cached(ViewOf(addCache, "A"), <<<<"a">>>>)
    /\ Cached(ViewOf(addCache, "B"), <<<<"a">>>>)

====
